---- MODULE Spec2Model ----
(***************************************************************************)
(* Model of src/apex_dashboard.py: the match-session detector              *)
(* (monitor_tick and the Match Monitor tab that drives it), the            *)
(* content-addressed artifact store (save_unique_json), the configuration  *)
(* fingerprint (settings_signature) and the comparison engine              *)
(* (compare_vs_similar).                                                   *)
(*                                                                         *)
(* Conventions.                                                            *)
(*  - An ISO timestamp string of the detector is the one-element tuple     *)
(*    <<t>> of the clock second it was taken at; the empty string "" is    *)
(*    the empty tuple <<>>.                                                *)
(*  - A CPU percentage is an integer number of hundredths of a percent.    *)
(*  - A text string that the code inspects character by character (a       *)
(*    launch flag, a profile name) is a tuple of one-character strings.    *)
(*  - A sha256 digest is collision-free: it is modelled by the value that  *)
(*    is serialised and hashed.                                            *)
(***************************************************************************)
EXTENDS Integers, Sequences, FiniteSets, TLC

VARIABLES
    ms,         \* st.session_state.monitor_state (the detector state dict)
    logs,       \* profile["performanceLogs"], newest first
    now,        \* the wall clock in whole seconds, as read by now_iso()
    pc,         \* position inside one run of the Match Monitor tab
    nticks,     \* number of monitor_tick calls made so far
    cfg_age,    \* history: monitor_tick calls since the thresholds last changed
    fg_trace,   \* history: apex_foreground of every tick, oldest first
    run_trace,  \* history: apex_running of every tick, oldest first
    cpu_trace,  \* history: the CPU sample of every tick (0 when none was taken)
    transitions,\* history: <<tick number, "open" | "close">>, oldest first
    nclosed,    \* history: number of ticks on which monitor_tick closed a session
    notes,      \* profile["meta"]["notes"]
    autosaved_logs, \* performanceLogs of the document in the autosave file
    artifact,   \* <<the match artifact document last written>>, or <<>>
    pool_used,  \* history: the pool last handed to compare_vs_similar
    fps_status, \* what the PresentMon apply button showed: "applied", "no_logs", or <<>>
    profile,    \* st.session_state.profile, as far as the artifact store reads it
    files,      \* the document files written by save_unique_json: path -> document
    index,      \* hash_to_file of the persisted index file: hash -> path
    autosave,   \* the document in the autosave file
    store_pc,   \* position inside one run of the header handlers
    ret,        \* what the last save_unique_json call returned
    nsaves,     \* number of save_unique_json calls made so far
    nwrites,    \* history: document class -> files written for it by save_unique_json
    first_path, \* history: document class -> path returned by the first call for it
    last_call,  \* history: <<class of the document last saved, whether it was new>>
    config,     \* targets, toggles and launchOptions of the current profile
    logged,     \* the configuration of a logged session and its settings_signature
    similar,    \* the candidate pool handed to compare_vs_similar
    current,    \* the record handed to compare_vs_similar
    compare_text, \* <<what compare_vs_similar returned for similar and current>>, or <<>>
    advised,    \* the targets and toggles handed to make_suggestions
    suggestions, \* <<what make_suggestions returned for advised>>, or <<>>
    disk,         \* the file system: path -> the text chunks the file holds
    save_pc,    \* position inside one call of safe_save_json
    save_path,  \* the path argument of the call in progress
    save_data,  \* the data argument of the call in progress
    committed,  \* history: path -> the document of the last call that returned
    upload,     \* <<the file held by the file_uploader widget>>, or <<>>
    message,    \* what the import handler showed: <<kind, text>>, or <<>>
    scan        \* st.session_state["_scan"]: <<document>>, or <<>>

detVars ==
    <<ms, logs, now, pc, nticks, cfg_age, fg_trace, run_trace, cpu_trace, transitions, nclosed, notes,
      autosaved_logs, artifact, pool_used, fps_status>>

storeVars ==
    <<profile, files, index, autosave, store_pc, ret, nsaves, nwrites, first_path, last_call>>

sigVars == <<config, logged>>

cmpVars == <<similar, current, compare_text>>

sugVars == <<advised, suggestions>>

saveVars ==
    <<disk, save_pc, save_path, save_data, committed>>

uploadVars ==
    <<upload, message, scan>>

\* the clock is shared: the artifact store reads it for its file names
nonDetVars ==
    <<storeVars, sigVars, cmpVars, sugVars, saveVars, uploadVars>>

nonStoreVars ==
    <<ms, logs, pc, nticks, cfg_age, fg_trace, run_trace, cpu_trace, transitions, nclosed, notes,
      autosaved_logs, artifact, pool_used, fps_status,
      sigVars, cmpVars, sugVars, saveVars, uploadVars>>

nonSigVars ==
    <<detVars, storeVars, cmpVars, sugVars, saveVars, uploadVars>>

nonCmpVars ==
    <<detVars, storeVars, sigVars, sugVars, saveVars, uploadVars>>

nonSugVars ==
    <<detVars, storeVars, sigVars, cmpVars, saveVars, uploadVars>>

nonSaveVars ==
    <<detVars, storeVars, sigVars, cmpVars, sugVars, uploadVars>>

nonUploadVars ==
    <<detVars, storeVars, sigVars, cmpVars, sugVars, saveVars>>

-----------------------------------------------------------------------------
(* Bounds of the detector model *)

MaxTicks == 4
MaxClock == 2
NScenarioTicks == 9

(* Input domains of the detector model *)

StartChoices == {1, 2}               \* st.number_input("Start streak", 1, 10, ..)
EndChoices == {2, 3}                 \* st.number_input("End streak", 2, 20, ..)
FgProcesses == {"r5apex", "R5Apex", "explorer", ""}
CpuChoices == {0, 4000}              \* 0.0 is also what a failed probe returns

-----------------------------------------------------------------------------
(* Helpers *)

Max(a, b) == IF a >= b THEN a ELSE b

NoISO == <<>>

ISO(t) == <<t>>

\* str.lower() on the process names the foreground probe can return
Lower(s) == IF s = "R5Apex" THEN "r5apex" ELSE s

RECURSIVE SumSeq(_)
SumSeq(s) == IF s = <<>> THEN 0 ELSE Head(s) + SumSeq(Tail(s))

RECURSIVE MaxSeq(_)
MaxSeq(s) == IF Len(s) = 1 THEN Head(s) ELSE Max(Head(s), MaxSeq(Tail(s)))

-----------------------------------------------------------------------------
(* The detector: monitor_tick *)

\* st.session_state.monitor_state as first constructed; fg_streak and
\* bg_streak are the values monitor_tick's setdefault gives them.
InitMonitorState ==
    [ enabled |-> FALSE,
      poll_seconds |-> 3,
      start_streak_needed |-> 3,
      end_streak_needed |-> 6,
      in_match |-> FALSE,
      match_startISO |-> NoISO,
      match_endISO |-> NoISO,
      cpu_samples |-> <<>>,
      cpu_peak |-> 0,
      last_tickISO |-> NoISO,
      apex_running |-> FALSE,
      apex_foreground |-> FALSE,
      fg_streak |-> 0,
      bg_streak |-> 0 ]

\* apex_foreground = apex_running and fg["process"].lower() == "r5apex"
ApexForeground(apex_running, fg_process) ==
    apex_running /\ Lower(fg_process) = "r5apex"

\* if apex_running: append the CPU sample and raise the running peak
SampleCpu(state, apex_running, cpu_pct) ==
    IF apex_running
    THEN [state EXCEPT !.cpu_samples = Append(@, cpu_pct),
                       !.cpu_peak = Max(@, cpu_pct)]
    ELSE state

\* bookkeeping that counts both ways without resetting the other streak
UpdateStreaksNoReset(state, apex_foreground) ==
    IF apex_foreground
    THEN [state EXCEPT !.fg_streak = @ + 1]
    ELSE [state EXCEPT !.bg_streak = @ + 1]

\* streak bookkeeping
UpdateStreaks(state, apex_foreground) ==
    IF apex_foreground
    THEN [state EXCEPT !.fg_streak = @ + 1, !.bg_streak = 0]
    ELSE [state EXCEPT !.bg_streak = @ + 1, !.fg_streak = 0]

OpenCondLate(state, apex_foreground) ==
    (~state.in_match) /\ apex_foreground
        /\ state.fg_streak > state.start_streak_needed

\* the IDLE -> IN_SESSION condition, read after the streaks are updated
OpenCond(state, apex_foreground) ==
    (~state.in_match) /\ apex_foreground
        /\ state.fg_streak >= state.start_streak_needed

\* an open that keeps the samples taken so far
OpenSessionKeepSamples(state, tick_ts) ==
    [state EXCEPT !.in_match = TRUE,
                  !.match_startISO = tick_ts,
                  !.match_endISO = NoISO]

OpenSession(state, tick_ts) ==
    [state EXCEPT !.in_match = TRUE,
                  !.match_startISO = tick_ts,
                  !.match_endISO = NoISO,
                  !.cpu_samples = <<>>,
                  !.cpu_peak = 0]

CloseCondStreakOnly(state, apex_running, apex_foreground) ==
    state.in_match
        /\ (~apex_foreground) /\ state.bg_streak >= state.end_streak_needed

CloseCondLate(state, apex_running, apex_foreground) ==
    state.in_match
        /\ ( (~apex_running)
             \/ ((~apex_foreground) /\ state.bg_streak > state.end_streak_needed) )

\* a close that needs nothing but an open session
CloseCondAnyTick(state, apex_running, apex_foreground) ==
    state.in_match

\* a close that only looks at the process
CloseCondNotRunningOnly(state, apex_running, apex_foreground) ==
    state.in_match /\ (~apex_running)

\* the IN_SESSION -> IDLE condition, read after a possible open
CloseCond(state, apex_running, apex_foreground) ==
    state.in_match
        /\ ( (~apex_running)
             \/ ((~apex_foreground) /\ state.bg_streak >= state.end_streak_needed) )

\* a close that also forgets when the session started
CloseSessionClearStart(state, tick_ts) ==
    [state EXCEPT !.in_match = FALSE, !.match_endISO = tick_ts, !.match_startISO = NoISO]

CloseSession(state, tick_ts) ==
    [state EXCEPT !.in_match = FALSE, !.match_endISO = tick_ts]

\* monitor_tick(state) with the probe results as arguments
monitor_tick(state, tick_ts, apex_running, fg_process, cpu_pct) ==
    LET apex_foreground == ApexForeground(apex_running, fg_process)
        s1 == SampleCpu(state, apex_running, cpu_pct)
        s2 == UpdateStreaks(s1, apex_foreground)
        s3 == IF OpenCond(s2, apex_foreground) THEN OpenSession(s2, tick_ts) ELSE s2
        s4 == IF CloseCond(s3, apex_running, apex_foreground)
              THEN CloseSession(s3, tick_ts) ELSE s3
    IN  [s4 EXCEPT !.last_tickISO = tick_ts,
                   !.apex_running = apex_running,
                   !.apex_foreground = apex_foreground]

-----------------------------------------------------------------------------
(* The Match Monitor tab: the session-end pipeline *)

\* round(x, 2) of the quotient a / b of two hundredths counts, to the nearest
RoundDiv(a, b) == (2 * a + b) \div (2 * b)

compute_cpu_stats(samples) ==
    IF samples = <<>>
    THEN [avg |-> 0, peak |-> 0]
    ELSE [avg |-> RoundDiv(SumSeq(samples), Len(samples)), peak |-> MaxSeq(samples)]

\* just_ended and ms.get("match_startISO")
JustEnded(state) ==
    state.match_endISO # NoISO /\ (~state.in_match) /\ state.match_startISO # NoISO

\* what ping_sample returns: (None, None) when the probe fails, else (avg, loss)
PingResults == { <<"failed", 0, 0>>, <<"ok", 2000, 0>> }

\* a failed probe logged as the number it did not measure
OrEmptyZero(ok, v) == [kind |-> "num", text |-> <<>>, num |-> v]

\* x if x is not None else ""
OrEmpty(ok, v) == IF ok THEN [kind |-> "num", text |-> <<>>, num |-> v]
                  ELSE [kind |-> "text", text |-> <<>>, num |-> 0]

hdr_method_label(toggles) ==
    IF ~toggles.hdrWindowsOn THEN "HDR OFF (SDR)"
    ELSE IF toggles.rtxHdrOn THEN "RTX HDR"
    ELSE IF toggles.autoHdrOn THEN "HDR ON (Auto HDR)"
    ELSE "HDR ON (no converter)"

find_similar_entries(log, sig, hdr_mode) ==
    LET Matches(x) == x.settings_signature = sig /\ x.hdr_mode = hdr_mode
    IN  SelectSeq(log, Matches)

\* the record the pipeline builds, before the comparison is attached
SessionEntry(state, created, probe, sig, hdr_mode) ==
    LET stats == compute_cpu_stats(state.cpu_samples)
    IN  [ createdISO |-> created,
          match_startISO |-> state.match_startISO,
          match_endISO |-> state.match_endISO,
          duration_s |-> state.match_endISO[1] - state.match_startISO[1],
          hdr_mode |-> hdr_mode,
          avg_fps |-> OrEmpty(FALSE, 0),
          one_percent_low |-> OrEmpty(FALSE, 0),
          ping_ms |-> OrEmpty(probe[1] = "ok", probe[2]),
          packet_loss_pct |-> OrEmpty(probe[1] = "ok", probe[3]),
          cpu_avg_pct |-> [kind |-> "num", text |-> <<>>, num |-> stats.avg],
          cpu_peak_pct |-> stats.peak,
          settings_signature |-> sig,
          compare_to_similar |-> "" ]

\* a reset that leaves the two timestamps in place
ResetKeepTimestamps(state) ==
    [state EXCEPT !.cpu_samples = <<>>, !.cpu_peak = 0]

\* a reset that puts the whole detector state back to its defaults
ResetEverything(state) == InitMonitorState

\* the reset at the end of the pipeline
ResetSessionFields(state) ==
    [state EXCEPT !.match_startISO = NoISO,
                  !.match_endISO = NoISO,
                  !.cpu_samples = <<>>,
                  !.cpu_peak = 0]

-----------------------------------------------------------------------------
(* Text helpers: a string is a tuple of one-character strings *)

Letters ==
    { "a", "b", "c", "d", "e", "f", "g", "h", "i", "j", "k", "l", "m",
      "n", "o", "p", "q", "r", "s", "t", "u", "v", "w", "x", "y", "z",
      "A", "B", "C", "D", "E", "F", "G", "H", "I", "J", "K", "L", "M",
      "N", "O", "P", "Q", "R", "S", "T", "U", "V", "W", "X", "Y", "Z" }

Digits == { "0", "1", "2", "3", "4", "5", "6", "7", "8", "9" }

\* ch.isalnum()
IsAlnum(ch) == ch \in Letters \cup Digits

\* ch.isspace()
IsSpace(ch) == ch = " "

RECURSIVE LStrip(_)
LStrip(s) ==
    IF s # <<>> /\ IsSpace(Head(s)) THEN LStrip(Tail(s)) ELSE s

RECURSIVE RStrip(_)
RStrip(s) ==
    IF s # <<>> /\ IsSpace(s[Len(s)]) THEN RStrip(SubSeq(s, 1, Len(s) - 1)) ELSE s

\* str.strip()
Strip(s) == LStrip(RStrip(s))

\* the character loop of slug: keep alphanumerics, "-" and "_", turn
\* whitespace into "_", drop everything else
RECURSIVE SlugChars(_)
SlugChars(s) ==
    IF s = <<>> THEN <<>>
    ELSE LET ch == Head(s)
         IN  (IF IsAlnum(ch) \/ ch \in {"-", "_"} THEN <<ch>>
              ELSE IF IsSpace(ch) THEN <<"_">>
              ELSE <<>>) \o SlugChars(Tail(s))

\* while "__" in name: name = name.replace("__", "_")
RECURSIVE CollapseUnderscores(_)
CollapseUnderscores(s) ==
    IF Len(s) < 2 THEN s
    ELSE IF s[1] = "_" /\ s[2] = "_" THEN CollapseUnderscores(Tail(s))
    ELSE <<Head(s)>> \o CollapseUnderscores(Tail(s))

SlugMaxLen == 60

TextProfile == <<"p", "r", "o", "f", "i", "l", "e">>

slug(s) ==
    LET name == CollapseUnderscores(SlugChars(Strip(s)))
    IN  IF name # <<>>
        THEN SubSeq(name, 1, IF Len(name) < SlugMaxLen THEN Len(name) ELSE SlugMaxLen)
        ELSE TextProfile

-----------------------------------------------------------------------------
(* The artifact store: profile_hash and save_unique_json *)

MaxSaves == 2

LOCKED == <<"L", "O", "C", "K", "E", "D">>

\* "Apex - Competitive"
DefaultName ==
    << "A", "p", "e", "x", " ", "-", " ",
       "C", "o", "m", "p", "e", "t", "i", "t", "i", "v", "e" >>

\* the default name and " a!  b ", which slugs to "a_b"
NameChoices ==
    { DefaultName, << " ", "a", "!", " ", " ", "b", " " >> }

DefaultTargets == [refreshHz |-> 240, fpsTarget |-> 237, latencyGoalMs |-> 10]

TargetChoices == { DefaultTargets, [DefaultTargets EXCEPT !.fpsTarget = 240] }

DefaultToggles ==
    [ hdrWindowsOn |-> TRUE, autoHdrOn |-> TRUE, rtxHdrOn |-> FALSE,
      gsyncOn |-> TRUE, vsyncInGameOff |-> TRUE, reflexBoostOn |-> TRUE ]

\* DEFAULT_PROFILE as built by a script run at clock second t
DEFAULT_PROFILE(t) ==
    [ meta |-> [profileName |-> DefaultName, lastUpdatedISO |-> ISO(t)],
      targets |-> DefaultTargets,
      toggles |-> DefaultToggles ]

\* the profile documents an upload can hold
ImportDocs ==
    { [ meta |-> [profileName |-> n, lastUpdatedISO |-> u], targets |-> g,
        toggles |-> DefaultToggles ] :
        n \in NameChoices, u \in {ISO(1), LOCKED}, g \in TargetChoices }

SNAP_DIR == "Snapshots"

PrefixSnap == <<"S", "N", "A", "P">>

ReasonManual == <<"m", "a", "n", "u", "a", "l">>

ReasonBeforeReset ==
    <<"b", "e", "f", "o", "r", "e", "_", "r", "e", "s", "e", "t">>

ReasonBeforeImport ==
    << "b", "e", "f", "o", "r", "e", "_", "i", "m", "p", "o", "r", "t", "_",
       "p", "r", "o", "f", "i", "l", "e" >>

TextSnapshot == <<"s", "n", "a", "p", "s", "h", "o", "t">>

\* the function m with key k set to v (a dict assignment)
Put(m, k, v) == [x \in (DOMAIN m) \cup {k} |-> IF x = k THEN v ELSE m[x]]

\* what profile_hash leaves in its argument: it works on a deep copy
ArgAfterHashAliased(p) ==
    IF "meta" \in DOMAIN p /\ "lastUpdatedISO" \in DOMAIN p.meta
    THEN [p EXCEPT !.meta.lastUpdatedISO = LOCKED]
    ELSE p

ArgAfterHash(p) == p

ProfileHashUnmasked(p) == p

\* profile_hash: the digest of the document with the timestamp masked
profile_hash(p) ==
    IF "meta" \in DOMAIN p /\ "lastUpdatedISO" \in DOMAIN p.meta
    THEN [p EXCEPT !.meta.lastUpdatedISO = LOCKED]
    ELSE p

\* dt.datetime.now().strftime("%Y%m%d_%H%M%S")
FileStamp(t) == <<ToString(t)>>

\* os.path.join(folder, f"{prefix}_{name}_{ts}_{r}.json")
ArtifactPath(folder, prefix, name, ts, r) ==
    <<folder, "/">> \o prefix \o <<"_">> \o name \o <<"_">> \o ts \o <<"_">> \o r
        \o <<".json">>

\* obj.get("meta", {}).get("profileName", "profile")
ProfileNameOf(obj) ==
    IF "meta" \in DOMAIN obj /\ "profileName" \in DOMAIN obj.meta
    THEN obj.meta.profileName
    ELSE TextProfile

save_unique_json_rewrite(folder, obj, reason, prefix, idx, fs, t) ==
    LET h == profile_hash(obj)
        path == IF h \in DOMAIN idx THEN idx[h]
                ELSE ArtifactPath(folder, prefix, slug(ProfileNameOf(obj)), FileStamp(t),
                                  IF reason # <<>> THEN slug(reason) ELSE TextSnapshot)
    IN  [ saved |-> h \notin DOMAIN idx, path |-> path, wrote |-> TRUE,
          files |-> Put(fs, path, obj), index |-> Put(idx, h, path),
          obj |-> ArgAfterHash(obj) ]

\* a store that writes a new document's file but never records its hash
save_unique_json_unindexed(folder, obj, reason, prefix, idx, fs, t) ==
    LET h == profile_hash(obj)
        path == IF h \in DOMAIN idx THEN idx[h]
                ELSE ArtifactPath(folder, prefix, slug(ProfileNameOf(obj)), FileStamp(t),
                                  IF reason # <<>> THEN slug(reason) ELSE TextSnapshot)
    IN  [ saved |-> h \notin DOMAIN idx, path |-> path, wrote |-> h \notin DOMAIN idx,
          files |-> IF h \in DOMAIN idx THEN fs ELSE Put(fs, path, obj),
          index |-> idx, obj |-> ArgAfterHash(obj) ]

\* save_unique_json with the index file, the document files and the clock as
\* arguments; the result carries what it returned and what it left behind
save_unique_json(folder, obj, reason, prefix, idx, fs, t) ==
    LET h == profile_hash(obj)
    IN  IF h \in DOMAIN idx
        THEN [ saved |-> FALSE, path |-> idx[h], wrote |-> FALSE,
               files |-> fs, index |-> idx, obj |-> ArgAfterHash(obj) ]
        ELSE LET ts == FileStamp(t)
                 name == slug(ProfileNameOf(obj))
                 r == IF reason # <<>> THEN slug(reason) ELSE TextSnapshot
                 path == ArtifactPath(folder, prefix, name, ts, r)
             IN  [ saved |-> TRUE, path |-> path, wrote |-> TRUE,
                   files |-> Put(fs, path, obj), index |-> Put(idx, h, path),
                   obj |-> ArgAfterHash(obj) ]

\* bump_updated at clock second t
bump_updated(p, t) == [p EXCEPT !.meta.lastUpdatedISO = ISO(t)]

\* the class of documents that are identical except for meta.lastUpdatedISO
DocClass(p) == [p EXCEPT !.meta = [k \in (DOMAIN p.meta) \ {"lastUpdatedISO"} |-> p.meta[k]]]

\* the store as the first script run leaves it
InitStore ==
    /\ profile = DEFAULT_PROFILE(1)
    /\ files = <<>>
    /\ index = <<>>
    /\ autosave = DEFAULT_PROFILE(1)
    /\ store_pc = "idle"
    /\ ret = <<>>
    /\ nsaves = 0
    /\ nwrites = <<>>
    /\ first_path = <<>>
    /\ last_call = <<>>

-----------------------------------------------------------------------------
(* The configuration fingerprint: build_launch_string and settings_signature *)

MaxFlags == 2

\* launch flags: "+f", "0" and "+f 0"
LaunchKeys ==
    { <<"+", "f">>, <<"0">>, <<"+", "f", " ", "0">> }

ToggleChoices == { DefaultToggles, [DefaultToggles EXCEPT !.rtxHdrOn = TRUE] }

\* " ".join(parts)
RECURSIVE JoinSpace(_)
JoinSpace(parts) ==
    IF parts = <<>> THEN <<>>
    ELSE IF Len(parts) = 1 THEN Head(parts)
    ELSE Head(parts) \o <<" ">> \o JoinSpace(Tail(parts))

\* [x["key"].strip() for x in launch_options if x.get("enabled")]
RECURSIVE EnabledKeys(_)
EnabledKeys(launch_options) ==
    IF launch_options = <<>> THEN <<>>
    ELSE (IF Head(launch_options).enabled THEN <<Strip(Head(launch_options).key)>> ELSE <<>>)
            \o EnabledKeys(Tail(launch_options))

RECURSIVE AllKeys(_)
AllKeys(launch_options) ==
    IF launch_options = <<>> THEN <<>>
    ELSE <<Strip(Head(launch_options).key)>> \o AllKeys(Tail(launch_options))

build_launch_string_unfiltered(launch_options) == JoinSpace(AllKeys(launch_options))

build_launch_string(launch_options) == JoinSpace(EnabledKeys(launch_options))

\* the digest of the serialised {targets, toggles, launch}
settings_signature(p) ==
    [ targets |-> p.targets,
      toggles |-> p.toggles,
      launch |-> build_launch_string(p.launchOptions) ]

\* the configuration of the profile the first script run loads
InitConfig ==
    /\ config = [targets |-> DefaultTargets, toggles |-> DefaultToggles, launchOptions |-> <<>>]
    /\ logged = [ config |-> [targets |-> DefaultTargets, toggles |-> DefaultToggles,
                               launchOptions |-> <<>>],
                  settings_signature |->
                      settings_signature([targets |-> DefaultTargets,
                                          toggles |-> DefaultToggles,
                                          launchOptions |-> <<>>]) ]

-----------------------------------------------------------------------------
(* The comparison engine: compare_vs_similar *)

MaxPool == 2

\* A field value of a session record: absent (None or no such key), a text,
\* or a number in hundredths.
Absent == [kind |-> "none", text |-> <<>>, num |-> 0]

Text(s) == [kind |-> "text", text |-> s, num |-> 0]

Number(n) == [kind |-> "num", text |-> <<>>, num |-> n]

EmptyText == Text(<<>>)

\* "n/a"
TextNA == Text(<<"n", "/", "a">>)

DigitValue(ch) ==
    CASE ch = "0" -> 0 [] ch = "1" -> 1 [] ch = "2" -> 2 [] ch = "3" -> 3
      [] ch = "4" -> 4 [] ch = "5" -> 5 [] ch = "6" -> 6 [] ch = "7" -> 7
      [] ch = "8" -> 8 [] ch = "9" -> 9

RECURSIVE DigitsValue(_)
DigitsValue(s) ==
    IF s = <<>> THEN 0 ELSE DigitsValue(SubSeq(s, 1, Len(s) - 1)) * 10 + DigitValue(s[Len(s)])

\* whether float(v) returns for a value that is neither None nor "": the texts
\* of the model are plain digit strings or not numbers at all
FloatParses(v) ==
    \/ v.kind = "num"
    \/ v.kind = "text" /\ v.text # <<>> /\ \A i \in DOMAIN v.text : v.text[i] \in Digits

\* float(v), in hundredths
FloatOf(v) == IF v.kind = "num" THEN v.num ELSE DigitsValue(v.text) * 100

\* v is None or v == ""
IsNoneOrEmpty(v) == v.kind = "none" \/ (v.kind = "text" /\ v.text = <<>>)

UsableForMeanLenient(v) == ~IsNoneOrEmpty(v)

\* the values mean_of keeps: not None, not "", and float(v) does not raise
UsableForMean(v) == (~IsNoneOrEmpty(v)) /\ FloatParses(v)

\* a mean_of that counts a text that is no number as zero
mean_of_lenient(pool, key) ==
    LET vals == SelectSeq([i \in DOMAIN pool |-> pool[i][key]], UsableForMeanLenient)
    IN  [ none |-> vals = <<>>,
          count |-> Len(vals),
          sum |-> SumSeq([i \in DOMAIN vals |->
                            IF FloatParses(vals[i]) THEN FloatOf(vals[i]) ELSE 0]) ]

\* mean_of(key): the kept values of the pool, as their count and sum
mean_of(pool, key) ==
    LET vals == SelectSeq([i \in DOMAIN pool |-> pool[i][key]], UsableForMean)
    IN  [ none |-> vals = <<>>,
          count |-> Len(vals),
          sum |-> SumSeq([i \in DOMAIN vals |-> FloatOf(vals[i])]) ]

NoPriorText == "No prior similar sessions found."

NotEnoughText ==
    "Similar sessions exist, but not enough comparable numeric fields logged yet."

\* a fragment whose delta is the mean minus the current value
FragmentDeltaReversed(label, cur, mean, unit) ==
    [ label |-> label,
      cur |-> RoundDiv(cur, unit),
      mean |-> RoundDiv(mean.sum, mean.count * unit),
      delta |-> RoundDiv(mean.sum - cur * mean.count, mean.count * unit) ]

\* one emitted fragment "<label>: <cur> vs <mean> (<delta>)"; unit is the
\* number of hundredths in one step of the printed precision
Fragment(label, cur, mean, unit) ==
    [ label |-> label,
      cur |-> RoundDiv(cur, unit),
      mean |-> RoundDiv(mean.sum, mean.count * unit),
      delta |-> RoundDiv(cur * mean.count - mean.sum, mean.count * unit) ]

\* a guarded fragment that counts a missing value of the compared record as 0
GuardedFragmentAlways(label, cur, mean, unit) ==
    IF ~mean.none
    THEN <<Fragment(label, IF FloatParses(cur) THEN FloatOf(cur) ELSE 0, mean, unit)>>
    ELSE <<>>

\* the fragment of a field that float() guards with try/except
GuardedFragment(label, cur, mean, unit) ==
    IF (~IsNoneOrEmpty(cur)) /\ (~mean.none) /\ FloatParses(cur)
    THEN <<Fragment(label, FloatOf(cur), mean, unit)>>
    ELSE <<>>

\* int(cur_ping) in hundredths
IntOf(v) == (FloatOf(v) \div 100) * 100

compare_vs_similar(pool, cur) ==
    IF pool = <<>>
    THEN [kind |-> "text", text |-> NoPriorText, parts |-> <<>>]
    ELSE
    LET cpu == IF IsNoneOrEmpty(cur.cpu_avg_pct)
                  \/ (cur.cpu_avg_pct.kind = "num" /\ cur.cpu_avg_pct.num = 0)
               THEN Number(0) ELSE cur.cpu_avg_pct
        avg_cpu == mean_of(pool, "cpu_avg_pct")
        avg_ping == mean_of(pool, "ping_ms")
        avg_loss == mean_of(pool, "packet_loss_pct")
        avg_fps == mean_of(pool, "avg_fps")
        avg_1l == mean_of(pool, "one_percent_low")
        ping_emitted == (~IsNoneOrEmpty(cur.ping_ms)) /\ (~avg_ping.none)
    IN  IF ~FloatParses(cpu) \/ (ping_emitted /\ ~FloatParses(cur.ping_ms))
        THEN [kind |-> "raise", text |-> "ValueError", parts |-> <<>>]
        ELSE
        LET parts ==
                (IF ~avg_cpu.none
                 THEN <<Fragment("CPU avg", FloatOf(cpu), avg_cpu, 1)>> ELSE <<>>)
                \o (IF ping_emitted
                    THEN <<[ label |-> "Ping",
                             cur |-> IntOf(cur.ping_ms) \div 100,
                             mean |-> RoundDiv(avg_ping.sum, avg_ping.count * 10),
                             delta |-> RoundDiv(IntOf(cur.ping_ms) * avg_ping.count
                                                  - avg_ping.sum, avg_ping.count * 10) ]>>
                    ELSE <<>>)
                \o GuardedFragment("Loss", cur.packet_loss_pct, avg_loss, 10)
                \o GuardedFragment("Avg FPS", cur.avg_fps, avg_fps, 10)
                \o GuardedFragment("1% Low", cur.one_percent_low, avg_1l, 10)
        IN  IF parts # <<>>
            THEN [kind |-> "parts", text |-> " | ", parts |-> parts]
            ELSE [kind |-> "text", text |-> NotEnoughText, parts |-> <<>>]

Abs(n) == IF n < 0 THEN -n ELSE n

\* format(n, ".1f") and format(n, ".2f") for n given in tenths / hundredths
Fixed1(n) == ToString(Abs(n) \div 10) \o "." \o ToString(Abs(n) % 10)

Fixed2(n) ==
    ToString(Abs(n) \div 100) \o "." \o ToString((Abs(n) % 100) \div 10)
        \o ToString(Abs(n) % 10)

SignOf(n) == IF n < 0 THEN "-" ELSE "+"

\* the f-string of one fragment
RenderFragment(f) ==
    CASE f.label = "CPU avg" ->
           "CPU avg: " \o Fixed2(f.cur) \o "% vs " \o Fixed2(f.mean) \o "% ("
               \o SignOf(f.delta) \o Fixed2(f.delta) \o ")"
      [] f.label = "Ping" ->
           "Ping: " \o ToString(f.cur) \o "ms vs " \o Fixed1(f.mean) \o "ms ("
               \o SignOf(f.delta) \o Fixed1(f.delta) \o ")"
      [] f.label = "Loss" ->
           "Loss: " \o Fixed1(f.cur) \o "% vs " \o Fixed1(f.mean) \o "% ("
               \o SignOf(f.delta) \o Fixed1(f.delta) \o ")"
      [] OTHER ->
           f.label \o ": " \o Fixed1(f.cur) \o " vs " \o Fixed1(f.mean) \o " ("
               \o SignOf(f.delta) \o Fixed1(f.delta) \o ")"

\* " | ".join(parts)
RECURSIVE JoinWith(_, _)
JoinWith(sep, parts) ==
    IF parts = <<>> THEN ""
    ELSE IF Len(parts) = 1 THEN parts[1]
    ELSE parts[1] \o sep \o JoinWith(sep, Tail(parts))

\* the string compare_vs_similar returns
RenderComparison(out) ==
    IF out.kind = "parts"
    THEN JoinWith(out.text, [i \in DOMAIN out.parts |-> RenderFragment(out.parts[i])])
    ELSE out.text

NumericFields == {"cpu_avg_pct", "ping_ms", "packet_loss_pct", "avg_fps", "one_percent_low"}

SessionRecord(cpu, ping, loss, fps, low) ==
    [ cpu_avg_pct |-> cpu, ping_ms |-> ping, packet_loss_pct |-> loss,
      avg_fps |-> fps, one_percent_low |-> low ]

\* what ping_sample leaves in a record: nothing, both numbers, or only the loss
NetChoices ==
    { <<EmptyText, EmptyText>>, <<Number(2000), Number(0)>>, <<EmptyText, Number(100)>> }

\* what the FPS import leaves in a record: nothing, or both numbers
FpsChoices == { <<EmptyText, EmptyText>>, <<Number(10000), Number(8000)>> }

CandidateChoices ==
    { SessionRecord(c, n[1], n[2], f[1], f[2]) :
        c \in {Absent, TextNA, Number(4000), Number(5000)},
        n \in NetChoices, f \in FpsChoices }

\* the record under comparison; its cpu_avg_pct and ping_ms are numbers,
\* empty or absent, as the pipeline writes them
CurrentChoices ==
    { SessionRecord(c, n[1], n[2], f[1], f[2]) :
        c \in {EmptyText, Number(4800)},
        n \in {<<EmptyText, EmptyText>>, <<Number(3000), Number(0)>>},
        f \in {<<EmptyText, EmptyText>>, <<Number(12000), Number(9000)>>, <<TextNA, Absent>>} }

InitCompare ==
    /\ similar = <<>>
    /\ current = SessionRecord(Number(4800), EmptyText, EmptyText, EmptyText, EmptyText)
    /\ compare_text = <<>>

-----------------------------------------------------------------------------
(* The suggestion engine: make_suggestions *)

SuggestionCap == 6

SuggestCapFps ==
    "Cap FPS to 2-3 below refresh (e.g., 237 for 240Hz) for VRR/Reflex consistency."

SuggestDisableOne ==
    "Disable one: Auto HDR OR RTX HDR. Stacking can reduce clarity (double tone-map)."

SuggestVsyncOff ==
    "Turn in-game V-Sync OFF to reduce input latency (competitive baseline)."

SuggestReflex == "Enable Reflex + Boost to reduce latency and stabilize pacing."

Min(a, b) == IF a < b THEN a ELSE b

\* s[:n]
Take(s, n) == SubSeq(s, 1, Min(n, Len(s)))

\* the list before the cap
SuggestionList(p) ==
    (IF p.targets.refreshHz >= 120 /\ p.targets.fpsTarget >= p.targets.refreshHz
     THEN <<SuggestCapFps>> ELSE <<>>)
    \o (IF p.toggles.autoHdrOn /\ p.toggles.rtxHdrOn THEN <<SuggestDisableOne>> ELSE <<>>)
    \o (IF ~p.toggles.vsyncInGameOff THEN <<SuggestVsyncOff>> ELSE <<>>)
    \o (IF ~p.toggles.reflexBoostOn THEN <<SuggestReflex>> ELSE <<>>)

\* a make_suggestions that keeps one suggestion
make_suggestions_first(p) == Take(SuggestionList(p), 1)

make_suggestions(p) == Take(SuggestionList(p), SuggestionCap)

ToggleNames ==
    {"hdrWindowsOn", "autoHdrOn", "rtxHdrOn", "gsyncOn", "vsyncInGameOff", "reflexBoostOn"}

\* values of the Refresh and FPS Target inputs
RefreshChoices == {60, 120, 240}

FpsTargetChoices == {60, 237, 240}

InitSuggest ==
    /\ advised = [targets |-> DefaultTargets, toggles |-> DefaultToggles]
    /\ suggestions = <<>>

-----------------------------------------------------------------------------
(* The session-end pipeline *)

\* the text block of auto_write_notes, section by section
auto_write_notes(p, last_entry, text, advice) ==
    [ setup |-> [ refreshHz |-> p.targets.refreshHz,
                  fpsTarget |-> p.targets.fpsTarget,
                  vrr |-> IF p.toggles.gsyncOn THEN "ON" ELSE "OFF",
                  vsync |-> IF p.toggles.vsyncInGameOff THEN "OFF" ELSE "ON",
                  reflex |-> IF p.toggles.reflexBoostOn THEN "ON+Boost" ELSE "OFF",
                  hdr |-> hdr_method_label(p.toggles),
                  launch |-> IF build_launch_string(p.launchOptions) = <<>>
                             THEN <<"(", "n", "o", "n", "e", ")">>
                             ELSE build_launch_string(p.launchOptions) ],
      last |-> [ match_startISO |-> last_entry.match_startISO,
                 match_endISO |-> last_entry.match_endISO,
                 duration_s |-> last_entry.duration_s,
                 cpu_avg_pct |-> last_entry.cpu_avg_pct,
                 cpu_peak_pct |-> last_entry.cpu_peak_pct,
                 ping_ms |-> last_entry.ping_ms,
                 packet_loss_pct |-> last_entry.packet_loss_pct,
                 avg_fps |-> last_entry.avg_fps,
                 one_percent_low |-> last_entry.one_percent_low ],
      compare |-> text,
      suggestions |-> IF advice = <<>>
                      THEN <<"No changes suggested. Keep baseline and log more matches.">>
                      ELSE advice ]

\* a log that takes the new record at its end
InsertLast(log, entry) == log \o <<entry>>

\* profile.setdefault("performanceLogs", []).insert(0, entry)
InsertFirst(log, entry) == <<entry>> \o log

\* the snapshot of the detector state in the match artifact, by the fields
\* that describe the session
SessionFields(state) ==
    [ in_match |-> state.in_match,
      match_startISO |-> state.match_startISO,
      match_endISO |-> state.match_endISO,
      cpu_peak |-> state.cpu_peak ]

\* an artifact whose detector snapshot is taken after the reset
MatchArtifactAfterReset(entry, state) ==
    [ match_entry |-> entry,
      monitor_state |->
          [ in_match |-> state.in_match, match_startISO |-> NoISO,
            match_endISO |-> NoISO, cpu_peak |-> 0 ] ]

\* {"match_entry": entry, "monitor_state": deep_copy(ms)}, written with
\* safe_save_json to DAILY_TEMP_DIR/match_HHMMSS.json
MatchArtifact(entry, state) ==
    [ match_entry |-> entry, monitor_state |-> SessionFields(state) ]

\* the body of "if just_ended and ms.get('match_startISO')"
SessionEndPipeline(state, log, p, created, probe) ==
    LET sig == settings_signature(p)
        hdr_mode == hdr_method_label(p.toggles)
        entry0 == SessionEntry(state, created, probe, sig, hdr_mode)
        pool == find_similar_entries(log, sig, hdr_mode)
        text == RenderComparison(compare_vs_similar(pool, entry0))
        entry == [entry0 EXCEPT !.compare_to_similar = text]
    IN  [ logs |-> InsertFirst(log, entry),
          notes |-> auto_write_notes(p, entry, text, make_suggestions(p)),
          artifact |-> MatchArtifact(entry, state),
          ms |-> ResetSessionFields(state),
          pool |-> pool ]

-----------------------------------------------------------------------------
(* Persistence: safe_save_json *)

INDEX_PATH == "profile_index.json"

AUTOSAVE_PATH == "profile_autosave.json"

SavePaths == {INDEX_PATH, AUTOSAVE_PATH}

\* the documents a call can be handed, told apart by one field
SaveDocs == { [updated |-> 1], [updated |-> 2] }

\* a call that writes to the target itself
TmpPathInPlace(path) == path

\* tmp = path + ".tmp"
TmpPath(path) == path \o ".tmp"

\* json.dump(data, f, indent=2): the text, in the chunks that are written
json_dump(data) == << "{", "\"updated\": ", ToString(data.updated), "}" >>

\* json.load of a file: <<the document>>, or <<>> when the text is no document
json_load(text) ==
    IF \E d \in SaveDocs : json_dump(d) = text
    THEN <<CHOOSE d \in SaveDocs : json_dump(d) = text>>
    ELSE <<>>

\* the function m without key k (the name a rename takes away)
Without(m, k) == [x \in (DOMAIN m) \ {k} |-> m[x]]

InitFiles ==
    /\ disk = <<>>
    /\ save_pc = "idle"
    /\ save_path = ""
    /\ save_data = <<>>
    /\ committed = <<>>

-----------------------------------------------------------------------------
(* Actions of the detector *)

InitDetector ==
    /\ ms = InitMonitorState
    /\ logs = <<>>
    /\ now = 1
    /\ pc = "idle"
    /\ nticks = 0
    /\ cfg_age = 0
    /\ fg_trace = <<>>
    /\ run_trace = <<>>
    /\ cpu_trace = <<>>
    /\ transitions = <<>>
    /\ nclosed = 0
    /\ notes = <<>>
    /\ autosaved_logs = <<>>
    /\ artifact = <<>>
    /\ pool_used = <<>>
    /\ fps_status = <<>>

\* the clock moves on between two runs of the script
ClockAdvance ==
    /\ pc = "idle"
    /\ now < MaxClock
    /\ now' = now + 1
    /\ UNCHANGED <<ms, logs, pc, nticks, cfg_age, fg_trace, run_trace, cpu_trace, transitions>>
    /\ UNCHANGED <<nclosed, notes, autosaved_logs, artifact, pool_used, fps_status>>
    /\ UNCHANGED nonDetVars

\* st.toggle("Monitoring enabled")
ToggleEnabled ==
    /\ pc = "idle"
    /\ ms' = [ms EXCEPT !.enabled = ~@]
    /\ UNCHANGED <<logs, now, pc, nticks, cfg_age, fg_trace, run_trace, cpu_trace, transitions>>
    /\ UNCHANGED <<nclosed, notes, autosaved_logs, artifact, pool_used, fps_status>>
    /\ UNCHANGED nonDetVars

\* the two st.number_input threshold widgets
SetThresholds ==
    /\ pc = "idle"
    /\ \E s \in StartChoices, e \in EndChoices :
          /\ <<s, e>> # <<ms.start_streak_needed, ms.end_streak_needed>>
          /\ ms' = [ms EXCEPT !.start_streak_needed = s, !.end_streak_needed = e]
    /\ cfg_age' = 0
    /\ UNCHANGED <<logs, now, pc, nticks, fg_trace, run_trace, cpu_trace, transitions>>
    /\ UNCHANGED <<nclosed, notes, autosaved_logs, artifact, pool_used, fps_status>>
    /\ UNCHANGED nonDetVars

\* a tick driver that does not look at the enabled flag
TickIgnoringEnabled ==
    /\ pc = "idle"
    /\ nticks < MaxTicks
    /\ \E apex_running \in BOOLEAN, fg_process \in FgProcesses :
       \E cpu_pct \in IF apex_running THEN CpuChoices ELSE {0} :
          ms' = monitor_tick(ms, ISO(now), apex_running, fg_process, cpu_pct)
    /\ nclosed' = IF ms.in_match /\ ~ms'.in_match THEN nclosed + 1 ELSE nclosed
    /\ pc' = "ticked"
    /\ nticks' = nticks + 1
    /\ cfg_age' = cfg_age + 1
    /\ UNCHANGED <<logs, now, fg_trace, run_trace, cpu_trace, transitions>>
    /\ UNCHANGED <<notes, autosaved_logs, artifact, pool_used, fps_status>>
    /\ UNCHANGED nonDetVars

\* if ms["enabled"]: ms = monitor_tick(ms)
Tick ==
    /\ pc = "idle"
    /\ ms.enabled
    /\ nticks < MaxTicks
    /\ \E apex_running \in BOOLEAN, fg_process \in FgProcesses :
       \E cpu_pct \in IF apex_running THEN CpuChoices ELSE {0} :
          ms' = monitor_tick(ms, ISO(now), apex_running, fg_process, cpu_pct)
    /\ nclosed' = IF ms.in_match /\ ~ms'.in_match THEN nclosed + 1 ELSE nclosed
    /\ pc' = "ticked"
    /\ nticks' = nticks + 1
    /\ cfg_age' = cfg_age + 1
    /\ UNCHANGED <<logs, now, fg_trace, run_trace, cpu_trace, transitions>>
    /\ UNCHANGED <<notes, autosaved_logs, artifact, pool_used, fps_status>>
    /\ UNCHANGED nonDetVars

\* the session-end pipeline, taken when the tick just closed a session
SessionEnd ==
    /\ pc = "ticked"
    /\ JustEnded(ms)
    /\ \E probe \in PingResults :
          LET r == SessionEndPipeline(ms, logs, config, ISO(now), probe)
          IN  /\ logs' = r.logs
              /\ notes' = r.notes
              /\ artifact' = <<r.artifact>>
              /\ ms' = r.ms
              /\ autosaved_logs' = r.logs
              /\ pool_used' = r.pool
    /\ pc' = "idle"
    /\ UNCHANGED <<now, nticks, cfg_age, fg_trace, run_trace, cpu_trace, transitions, nclosed, fps_status>>
    /\ UNCHANGED nonDetVars

\* the rest of the script run when no session ended on this tick
NoSessionEnd ==
    /\ pc = "ticked"
    /\ ~JustEnded(ms)
    /\ pc' = "idle"
    /\ UNCHANGED <<ms, logs, now, nticks, cfg_age, fg_trace, run_trace, cpu_trace, transitions>>
    /\ UNCHANGED <<nclosed, notes, autosaved_logs, artifact, pool_used, fps_status>>
    /\ UNCHANGED nonDetVars

-----------------------------------------------------------------------------
(* The PresentMon tab: "Apply to latest match entry" *)

MaxLogTicks == 8

\* result["avg_fps"], result["one_percent_low"] of a parsed CSV, in hundredths
FpsResults ==
    { [avg_fps |-> 10000, one_percent_low |-> 8000],
      [avg_fps |-> 12000, one_percent_low |-> 9000] }

\* an import that compares the newest record with the whole log
PoolOfAll(log) == log

\* logs[1:]
PoolOf(log) == Tail(log)

\* an import that also stamps the record
WithFpsAndStamp(entry, result) ==
    [entry EXCEPT !.avg_fps = Number(result.avg_fps),
                  !.one_percent_low = Number(result.one_percent_low),
                  !.createdISO = NoISO]

\* logs[0]["avg_fps"] = ...; logs[0]["one_percent_low"] = ...
WithFps(entry, result) ==
    [entry EXCEPT !.avg_fps = Number(result.avg_fps),
                  !.one_percent_low = Number(result.one_percent_low)]

\* the body of the button handler for a non-empty log; a raising
\* compare_vs_similar leaves the two FPS fields written and nothing else
apply_fps(log, p, old_notes, result) ==
    LET e1 == WithFps(log[1], result)
        pool == find_similar_entries(PoolOf(log), e1.settings_signature, e1.hdr_mode)
        cmp == compare_vs_similar(pool, e1)
        text == RenderComparison(cmp)
        e2 == [e1 EXCEPT !.compare_to_similar = text]
    IN  IF cmp.kind = "raise"
        THEN [ logs |-> <<e1>> \o Tail(log), notes |-> old_notes, pool |-> pool,
               saved |-> FALSE ]
        ELSE [ logs |-> <<e2>> \o Tail(log),
               notes |-> auto_write_notes(p, e2, text, make_suggestions(p)),
               pool |-> pool, saved |-> TRUE ]

\* the button, between two ticks
ApplyFps ==
    /\ pc = "idle"
    /\ IF logs = <<>>
       THEN /\ fps_status' = "no_logs"
            /\ UNCHANGED <<logs, notes, autosaved_logs, pool_used>>
       ELSE \E result \in FpsResults :
               LET r == apply_fps(logs, config, notes, result)
               IN  /\ logs' = r.logs
                   /\ notes' = r.notes
                   /\ autosaved_logs' = IF r.saved THEN r.logs ELSE autosaved_logs
                   /\ pool_used' = r.pool
                   /\ fps_status' = IF r.saved THEN "applied" ELSE fps_status
    /\ UNCHANGED <<ms, now, pc, nticks, cfg_age, fg_trace, run_trace, cpu_trace, transitions,
                   nclosed, artifact>>
    /\ UNCHANGED nonDetVars

\* the same tick on a machine where Apex, when it runs, is the foreground window
LogTick ==
    /\ pc = "idle"
    /\ ms.enabled
    /\ nticks < MaxLogTicks
    /\ \E apex_running \in BOOLEAN, fg_process \in {"r5apex"} :
       \E cpu_pct \in IF apex_running THEN {4000} ELSE {0} :
          ms' = monitor_tick(ms, ISO(now), apex_running, fg_process, cpu_pct)
    /\ nclosed' = IF ms.in_match /\ ~ms'.in_match THEN nclosed + 1 ELSE nclosed
    /\ pc' = "ticked"
    /\ nticks' = nticks + 1
    /\ cfg_age' = cfg_age + 1
    /\ UNCHANGED <<logs, now, fg_trace, run_trace, cpu_trace, transitions>>
    /\ UNCHANGED <<notes, autosaved_logs, artifact, pool_used, fps_status>>
    /\ UNCHANGED nonDetVars

-----------------------------------------------------------------------------
(* Actions of the header handlers *)

\* one call save_unique_json(SNAP_DIR, profile, reason, "SNAP") by a handler
CallSave(reason, next_pc) ==
    /\ nsaves < MaxSaves
    /\ LET r == save_unique_json(SNAP_DIR, profile, reason, PrefixSnap, index, files, now)
           c == DocClass(profile)
       IN  /\ files' = r.files
           /\ index' = r.index
           /\ profile' = r.obj
           /\ ret' = <<r.saved, r.path>>
           /\ last_call' = <<c, c \notin DOMAIN first_path>>
           /\ nwrites' = Put(nwrites, c, (IF c \in DOMAIN nwrites THEN nwrites[c] ELSE 0)
                                            + (IF r.wrote THEN 1 ELSE 0))
           /\ first_path' = IF c \in DOMAIN first_path THEN first_path
                            ELSE Put(first_path, c, r.path)
    /\ store_pc' = next_pc
    /\ nsaves' = nsaves + 1
    /\ UNCHANGED autosave
    /\ UNCHANGED <<nonStoreVars, now>>

\* the end of a script run: bump_updated and the autosave
FinishRun(p) ==
    /\ profile' = bump_updated(p, now)
    /\ autosave' = bump_updated(p, now)
    /\ store_pc' = "idle"
    /\ UNCHANGED <<files, index, ret, nsaves, nwrites, first_path, last_call>>
    /\ UNCHANGED <<nonStoreVars, now>>

\* the "Snapshot NOW (dedup)" button
SnapshotSave ==
    /\ store_pc = "idle"
    /\ CallSave(ReasonManual, "snapshot")

SnapshotDone ==
    /\ store_pc = "snapshot"
    /\ FinishRun(profile)

\* the "Reset (snapshot first)" button
ResetSave ==
    /\ store_pc = "idle"
    /\ CallSave(ReasonBeforeReset, "reset")

ResetReplace ==
    /\ store_pc = "reset"
    /\ FinishRun(DEFAULT_PROFILE(now))

\* the upload of a profile document
ImportSave ==
    /\ store_pc = "idle"
    /\ CallSave(ReasonBeforeImport, "import")

ImportReplace ==
    /\ store_pc = "import"
    /\ \E data \in ImportDocs : FinishRun(data)

\* the profile name and target widgets
EditProfile ==
    /\ store_pc = "idle"
    /\ \E n \in NameChoices, g \in TargetChoices :
          FinishRun([profile EXCEPT !.meta.profileName = n, !.targets = g])

NextStore ==
    \/ ClockAdvance
    \/ SnapshotSave
    \/ SnapshotDone
    \/ ResetSave
    \/ ResetReplace
    \/ ImportSave
    \/ ImportReplace
    \/ EditProfile

-----------------------------------------------------------------------------
(* The "Import JSON (profile or scan.json)" uploader *)

\* a JSON object that has the three profile keys but not the targets the UI reads
HollowProfile ==
    [ meta |-> [profileName |-> DefaultName, lastUpdatedISO |-> ISO(1)],
      targets |-> [fps |-> 240],
      toggles |-> DefaultToggles ]

\* a JSON object that is neither a profile nor a scan bundle
UnknownDoc == [name |-> DefaultName]

\* a scan.json bundle
ScanDoc == [scan |-> [gpu |-> "x"], system |-> [os |-> "x"]]

\* the files a user can drop on the uploader: JSON objects, and bytes json.loads refuses
UploadFiles ==
    { [text |-> "json", data |-> d] :
        d \in ImportDocs \cup {HollowProfile, UnknownDoc, ScanDoc} }
    \cup { [text |-> "binary", data |-> UnknownDoc] }

\* json.loads(text) raises on bytes that are no JSON text
json_loads_raises(file) == file.text # "json"

is_scan(data) == {"scan", "system"} \subseteq DOMAIN data

is_profile(data) == {"meta", "targets", "toggles"} \subseteq DOMAIN data

\* the keys the header and the first tab read with profile[...][...]; without them
\* the script run raises KeyError before it reaches the autosave
RunSurvives(p) ==
    /\ {"meta", "targets", "toggles"} \subseteq DOMAIN p
    /\ "profileName" \in DOMAIN p.meta
    /\ {"refreshHz", "fpsTarget", "latencyGoalMs"} \subseteq DOMAIN p.targets

SuccessScan == <<"success", "Scan imported. Open Scan/Autofill tab to apply it.">>
SuccessProfile == <<"success", "Profile imported.">>
ErrorUnknown ==
    <<"error", "Unknown JSON type. Import a profile JSON or a scan.json bundle.">>
ErrorFailed == <<"error", "Import failed">>

InitUpload ==
    /\ upload = <<>>
    /\ message = <<>>
    /\ scan = <<>>

\* a file is dropped on the uploader and a script run starts
Upload ==
    /\ store_pc = "idle"
    /\ \E file \in UploadFiles : upload' = <<file>>
    /\ message' = <<>>
    /\ store_pc' = "uploaded"
    /\ UNCHANGED <<profile, files, index, autosave, ret, nsaves, nwrites, first_path,
                   last_call, scan>>
    /\ UNCHANGED <<detVars, sigVars, cmpVars, sugVars, saveVars>>

\* json.loads raises: the except branch
UploadFailed ==
    /\ store_pc = "uploaded"
    /\ json_loads_raises(upload[1])
    /\ message' = ErrorFailed
    /\ store_pc' = "handled"
    /\ UNCHANGED <<profile, files, index, autosave, ret, nsaves, nwrites, first_path,
                   last_call, upload, scan>>
    /\ UNCHANGED <<detVars, sigVars, cmpVars, sugVars, saveVars>>

\* the is_scan branch
UploadIsScan ==
    /\ store_pc = "uploaded"
    /\ ~json_loads_raises(upload[1])
    /\ is_scan(upload[1].data)
    /\ scan' = <<upload[1].data>>
    /\ message' = SuccessScan
    /\ store_pc' = "handled"
    /\ UNCHANGED <<profile, files, index, autosave, ret, nsaves, nwrites, first_path,
                   last_call, upload>>
    /\ UNCHANGED <<detVars, sigVars, cmpVars, sugVars, saveVars>>

\* the else branch
UploadUnknown ==
    /\ store_pc = "uploaded"
    /\ ~json_loads_raises(upload[1])
    /\ ~is_scan(upload[1].data)
    /\ ~is_profile(upload[1].data)
    /\ message' = ErrorUnknown
    /\ store_pc' = "handled"
    /\ UNCHANGED <<profile, files, index, autosave, ret, nsaves, nwrites, first_path,
                   last_call, upload, scan>>
    /\ UNCHANGED <<detVars, sigVars, cmpVars, sugVars, saveVars>>

\* the is_profile branch, first statement: the snapshot of the profile in use
UploadIsProfile ==
    /\ store_pc = "uploaded"
    /\ ~json_loads_raises(upload[1])
    /\ ~is_scan(upload[1].data)
    /\ is_profile(upload[1].data)
    /\ CallSave(ReasonBeforeImport, "replacing")

\* the is_profile branch, the rest: the replacement, the autosave, st.rerun(); the
\* rerun ends in the autosave when it survives the widgets
UploadReplace ==
    /\ store_pc = "replacing"
    /\ LET data == upload[1].data
       IN  IF RunSurvives(data)
           THEN /\ profile' = bump_updated(data, now)
                /\ autosave' = bump_updated(data, now)
           ELSE /\ profile' = data
                /\ autosave' = data
    /\ message' = SuccessProfile
    /\ store_pc' = "idle"
    /\ UNCHANGED <<files, index, ret, nsaves, nwrites, first_path, last_call, upload, scan>>
    /\ UNCHANGED <<detVars, sigVars, cmpVars, sugVars, saveVars>>

\* the rest of a script run whose handler did not call st.rerun()
UploadDone ==
    /\ store_pc = "handled"
    /\ IF RunSurvives(profile)
       THEN FinishRun(profile)
       ELSE /\ store_pc' = "idle"
            /\ UNCHANGED <<profile, files, index, autosave, ret, nsaves, nwrites,
                           first_path, last_call>>
            /\ UNCHANGED <<nonStoreVars, now>>

NextUpload ==
    \/ ClockAdvance
    \/ Upload
    \/ UploadFailed
    \/ UploadIsScan
    \/ UploadUnknown
    \/ UploadIsProfile
    \/ UploadReplace
    \/ UploadDone

-----------------------------------------------------------------------------
(* Actions on the configuration *)

\* the three st.number_input target widgets
SetTargets ==
    /\ pc = "idle"
    /\ \E g \in TargetChoices : config' = [config EXCEPT !.targets = g]
    /\ UNCHANGED <<logged, nonSigVars>>

\* the six st.toggle widgets
SetToggles ==
    /\ pc = "idle"
    /\ \E g \in ToggleChoices : config' = [config EXCEPT !.toggles = g]
    /\ UNCHANGED <<logged, nonSigVars>>

\* the st.checkbox of launch option i
ToggleLaunchOption ==
    /\ \E i \in 1..Len(config.launchOptions) :
          config' = [config EXCEPT !.launchOptions[i].enabled = ~@]
    /\ UNCHANGED <<logged, nonSigVars>>

\* an imported profile that holds one more launch option
ImportWithAddedOption ==
    /\ Len(config.launchOptions) < MaxFlags
    /\ \E k \in LaunchKeys, e \in BOOLEAN :
          config' = [config EXCEPT !.launchOptions = Append(@, [key |-> k, enabled |-> e])]
    /\ UNCHANGED <<logged, nonSigVars>>

\* an imported profile that holds one launch option less
ImportWithRemovedOption ==
    /\ \E i \in 1..Len(config.launchOptions) :
          config' = [config EXCEPT !.launchOptions =
                        SubSeq(@, 1, i - 1) \o SubSeq(@, i + 1, Len(@))]
    /\ UNCHANGED <<logged, nonSigVars>>

\* an imported profile that lists two neighbouring launch options the other way round
ImportWithSwappedOptions ==
    /\ \E i \in 1..(Len(config.launchOptions) - 1) :
          config' = [config EXCEPT !.launchOptions =
                        [j \in DOMAIN @ |-> IF j = i THEN @[i + 1]
                                             ELSE IF j = i + 1 THEN @[i] ELSE @[j]]]
    /\ UNCHANGED <<logged, nonSigVars>>

\* sig = settings_signature(profile) at a session end
RecordSignature ==
    /\ logged' = [config |-> config, settings_signature |-> settings_signature(config)]
    /\ UNCHANGED <<config, nonSigVars>>

NextSig ==
    \/ SetTargets
    \/ SetToggles
    \/ ToggleLaunchOption
    \/ ImportWithAddedOption
    \/ ImportWithRemovedOption
    \/ ImportWithSwappedOptions
    \/ RecordSignature

\* the detector with a changing configuration and the FPS import
NextLog ==
    \/ ToggleEnabled
    \/ LogTick
    \/ SessionEnd
    \/ NoSessionEnd
    \/ SetTargets
    \/ SetToggles
    \/ ApplyFps

-----------------------------------------------------------------------------
(* Actions on the comparison engine *)

\* one more record of the log matches the fingerprint and the HDR label
AddCandidate ==
    /\ Len(similar) < MaxPool
    /\ \E c \in CandidateChoices : similar' = <<c>> \o similar
    /\ compare_text' = <<>>
    /\ UNCHANGED <<current, nonCmpVars>>

\* the pipeline or the FPS import hands over another record
SetCurrent ==
    /\ \E c \in CurrentChoices : current' = c
    /\ compare_text' = <<>>
    /\ UNCHANGED <<similar, nonCmpVars>>

\* compare_text = compare_vs_similar(similar, entry)
Compare ==
    /\ compare_text = <<>>
    /\ compare_text' = <<compare_vs_similar(similar, current)>>
    /\ UNCHANGED <<similar, current, nonCmpVars>>

NextCmp ==
    \/ AddCandidate
    \/ SetCurrent
    \/ Compare

-----------------------------------------------------------------------------
(* Actions on the suggestion engine *)

\* one of the six st.toggle widgets is flipped
FlipToggle ==
    /\ \E k \in ToggleNames : advised' = [advised EXCEPT !.toggles[k] = ~@]
    /\ suggestions' = <<>>
    /\ UNCHANGED nonSugVars

\* the Refresh and FPS Target inputs
EnterTargets ==
    /\ \E r \in RefreshChoices, f \in FpsTargetChoices :
          advised' = [advised EXCEPT !.targets.refreshHz = r, !.targets.fpsTarget = f]
    /\ suggestions' = <<>>
    /\ UNCHANGED nonSugVars

\* suggestions = make_suggestions(profile)
Suggest ==
    /\ suggestions = <<>>
    /\ suggestions' = <<make_suggestions(advised)>>
    /\ UNCHANGED <<advised, nonSugVars>>

NextSug ==
    \/ FlipToggle
    \/ EnterTargets
    \/ Suggest

-----------------------------------------------------------------------------
(* Actions of safe_save_json, one per step, and the crash of the process *)

\* open(tmp, "w"): the temporary file is created or truncated
OpenTmp ==
    /\ save_pc = "idle"
    /\ \E path \in SavePaths, data \in SaveDocs :
          /\ save_path' = path
          /\ save_data' = <<data>>
          /\ disk' = Put(disk, TmpPath(path), <<>>)
    /\ save_pc' = "writing"
    /\ UNCHANGED <<committed, nonSaveVars>>

\* json.dump writes the next chunk of the text
WriteChunk ==
    /\ save_pc = "writing"
    /\ LET tmp == TmpPath(save_path)
           text == json_dump(save_data[1])
       IN  /\ Len(disk[tmp]) < Len(text)
           /\ disk' = Put(disk, tmp, Append(disk[tmp], text[Len(disk[tmp]) + 1]))
    /\ UNCHANGED <<save_pc, save_path, save_data, committed, nonSaveVars>>

\* the with block ends: the file is flushed and closed
CloseTmp ==
    /\ save_pc = "writing"
    /\ Len(disk[TmpPath(save_path)]) = Len(json_dump(save_data[1]))
    /\ save_pc' = "closed"
    /\ UNCHANGED <<disk, save_path, save_data, committed, nonSaveVars>>

\* os.replace(tmp, path), and the call returns
ReplaceTmp ==
    /\ save_pc = "closed"
    /\ LET tmp == TmpPath(save_path)
       IN  disk' = Put(Without(disk, tmp), save_path, disk[tmp])
    /\ committed' = Put(committed, save_path, save_data[1])
    /\ save_pc' = "idle"
    /\ save_path' = ""
    /\ save_data' = <<>>
    /\ UNCHANGED nonSaveVars

\* the process dies inside the call; chunks still in the buffer of an open
\* file are lost
Crash ==
    /\ save_pc # "idle"
    /\ LET tmp == TmpPath(save_path)
       IN  IF save_pc = "writing"
           THEN \E n \in 0..Len(disk[tmp]) : disk' = Put(disk, tmp, SubSeq(disk[tmp], 1, n))
           ELSE disk' = disk
    /\ save_pc' = "idle"
    /\ save_path' = ""
    /\ save_data' = <<>>
    /\ UNCHANGED <<committed, nonSaveVars>>

NextSave ==
    \/ OpenTmp
    \/ WriteChunk
    \/ CloseTmp
    \/ ReplaceTmp
    \/ Crash

-----------------------------------------------------------------------------
(* The nine-tick scenario: default thresholds, one tick per clock second *)

ScenarioCpu == {4000}

ScenarioFg == <<TRUE, TRUE, TRUE, FALSE, FALSE, FALSE, FALSE, FALSE, FALSE>>

\* the transitions a tick made, read off the session timestamps it left
TickTransitions(before, after, n) ==
    (IF (~before.in_match) /\ after.match_startISO # NoISO
     THEN << <<n, "open">> >> ELSE <<>>)
    \o (IF after.match_endISO # NoISO THEN << <<n, "close">> >> ELSE <<>>)

InitScenario ==
    /\ ms = [InitMonitorState EXCEPT !.enabled = TRUE]
    /\ logs = <<>>
    /\ now = 1
    /\ pc = "idle"
    /\ nticks = 0
    /\ cfg_age = 0
    /\ fg_trace = <<>>
    /\ run_trace = <<>>
    /\ cpu_trace = <<>>
    /\ transitions = <<>>
    /\ nclosed = 0
    /\ notes = <<>>
    /\ autosaved_logs = <<>>
    /\ artifact = <<>>
    /\ pool_used = <<>>
    /\ fps_status = <<>>
    /\ InitStore
    /\ InitConfig
    /\ InitCompare
    /\ InitSuggest
    /\ InitFiles
    /\ InitUpload

ScenarioTick ==
    /\ pc = "idle"
    /\ ms.enabled
    /\ nticks < NScenarioTicks
    /\ \E apex_running \in BOOLEAN, fg_process \in FgProcesses :
       \E cpu_pct \in IF apex_running THEN ScenarioCpu ELSE {0} :
          LET after == monitor_tick(ms, ISO(now), apex_running, fg_process, cpu_pct)
          IN  /\ ms' = after
              /\ fg_trace' = Append(fg_trace, after.apex_foreground)
              /\ run_trace' = Append(run_trace, apex_running)
              /\ cpu_trace' = Append(cpu_trace, cpu_pct)
              /\ transitions' = transitions \o TickTransitions(ms, after, nticks + 1)
              /\ nclosed' = IF ms.in_match /\ ~after.in_match THEN nclosed + 1 ELSE nclosed
    /\ pc' = "ticked"
    /\ nticks' = nticks + 1
    /\ cfg_age' = cfg_age + 1
    /\ now' = now + 1
    /\ UNCHANGED <<logs, notes, autosaved_logs, artifact, pool_used, fps_status>>
    /\ UNCHANGED nonDetVars

NextScenario ==
    \/ ScenarioTick
    \/ SessionEnd
    \/ NoSessionEnd

(* The detector ticking without end: the counters are capped in the guard *)

MaxStreak == 7
MaxSamples == 6
MaxLiveSessions == 2

\* if ms["enabled"]: ms = monitor_tick(ms), as long as the tick keeps the
\* streaks, the sample buffer and the number of sessions within their caps
LiveTick ==
    /\ pc = "idle"
    /\ ms.enabled
    /\ \E apex_running \in BOOLEAN, fg_process \in {"r5apex", "explorer"} :
          /\ IF ApexForeground(apex_running, fg_process)
             THEN /\ ms.fg_streak < MaxStreak
                  /\ (ms.in_match \/ nclosed < MaxLiveSessions)
             ELSE ms.bg_streak < MaxStreak
          /\ apex_running => Len(ms.cpu_samples) < MaxSamples
          /\ ms' = monitor_tick(ms, ISO(now), apex_running, fg_process,
                                IF apex_running THEN 4000 ELSE 0)
    /\ nclosed' = IF ms.in_match /\ ~ms'.in_match THEN nclosed + 1 ELSE nclosed
    /\ pc' = "ticked"
    /\ UNCHANGED <<logs, now, nticks, cfg_age, fg_trace, run_trace, cpu_trace, transitions>>
    /\ UNCHANGED <<notes, autosaved_logs, artifact, pool_used, fps_status>>
    /\ UNCHANGED nonDetVars

NextLive ==
    \/ LiveTick
    \/ SessionEnd
    \/ NoSessionEnd

MaxCpuTicks == 6

\* the CPU samples of the shorter scenario, in hundredths of a percent
CpuSamples == {2000, 4000}

\* the same tick with two CPU readings, for fewer ticks
CpuTick ==
    /\ pc = "idle"
    /\ ms.enabled
    /\ nticks < MaxCpuTicks
    /\ \E apex_running \in BOOLEAN, fg_process \in {"r5apex", "explorer"} :
       \E cpu_pct \in IF apex_running THEN CpuSamples ELSE {0} :
          LET after == monitor_tick(ms, ISO(now), apex_running, fg_process, cpu_pct)
          IN  /\ ms' = after
              /\ fg_trace' = Append(fg_trace, after.apex_foreground)
              /\ run_trace' = Append(run_trace, apex_running)
              /\ cpu_trace' = Append(cpu_trace, cpu_pct)
              /\ transitions' = transitions \o TickTransitions(ms, after, nticks + 1)
              /\ nclosed' = IF ms.in_match /\ ~after.in_match THEN nclosed + 1 ELSE nclosed
    /\ pc' = "ticked"
    /\ nticks' = nticks + 1
    /\ cfg_age' = cfg_age + 1
    /\ now' = now + 1
    /\ UNCHANGED <<logs, notes, autosaved_logs, artifact, pool_used, fps_status>>
    /\ UNCHANGED nonDetVars

NextCpu ==
    \/ CpuTick
    \/ SessionEnd
    \/ NoSessionEnd

-----------------------------------------------------------------------------
(* Specifications *)

vars == <<detVars, storeVars, sigVars, cmpVars, sugVars, saveVars, uploadVars>>

Init ==
    /\ InitDetector
    /\ InitStore
    /\ InitConfig
    /\ InitCompare
    /\ InitSuggest
    /\ InitFiles
    /\ InitUpload

Next ==
    \/ ClockAdvance
    \/ ToggleEnabled
    \/ SetThresholds
    \/ Tick
    \/ SessionEnd
    \/ NoSessionEnd

Spec == Init /\ [][Next]_vars

SpecScenario == InitScenario /\ [][NextScenario]_vars

SpecStore == Init /\ [][NextStore]_vars

SpecSig == Init /\ [][NextSig]_vars

SpecCmp == Init /\ [][NextCmp]_vars

SpecSug == Init /\ [][NextSug]_vars

SpecSave == Init /\ [][NextSave]_vars

SpecUpload == Init /\ [][NextUpload]_vars

SpecLog == Init /\ [][NextLog]_vars

\* the rest of a script run after its tick: lines 1012-1062 follow line 1009 in
\* the same run, so a run that has ticked goes on to its end
RunCompletes == pc = "ticked" /\ pc' = "idle"

\* the auto-refresh timer keeps starting runs while monitoring is enabled, and
\* every run that has ticked completes
SpecLive ==
    /\ InitScenario
    /\ [][NextLive]_vars
    /\ WF_vars(LiveTick)
    /\ WF_pc(RunCompletes)

SpecCpu == InitScenario /\ [][NextCpu]_vars

-----------------------------------------------------------------------------
(* Properties of the detector *)

\* a step that is one call of monitor_tick
TickStep == pc = "idle" /\ pc' = "ticked"

\* C1: from IDLE a tick opens the session if and only if it is a foreground
\* tick whose foreground streak has reached start_streak_needed; when the
\* thresholds did not change during the foreground run, that is the tick on
\* which the streak equals the threshold, and no earlier tick of the run.
C1_OpenAtThreshold ==
    [][ (TickStep /\ ~ms.in_match) =>
          /\ ms'.in_match <=>
                (ms'.apex_foreground /\ ms'.fg_streak >= ms'.start_streak_needed)
          /\ (ms'.in_match /\ cfg_age' >= ms'.fg_streak) =>
                ms'.fg_streak = ms'.start_streak_needed
          /\ ms'.in_match => ms'.match_startISO = ISO(now) ]_vars

\* a tick has just opened a session after a streak of at least two ticks
C1_Witness ==
    /\ pc = "ticked"
    /\ ms.in_match
    /\ ms.apex_foreground
    /\ ms.cpu_samples = <<>>
    /\ ms.match_startISO = ms.last_tickISO
    /\ ms.fg_streak = ms.start_streak_needed
    /\ ms.start_streak_needed >= 2

\* C2: a tick that finds the session open and the process not running leaves
\* in_match false and match_endISO at that tick's timestamp, whatever the
\* background streak and end_streak_needed are.
C2_CloseOnProcessExit ==
    [][ (TickStep /\ ms.in_match /\ ~ms'.apex_running) =>
          /\ ~ms'.in_match
          /\ ms'.match_endISO = ISO(now)
          /\ ms'.match_endISO = ms'.last_tickISO ]_vars

\* the process exit closed a session before the background streak was reached
C2_Witness ==
    /\ pc = "ticked"
    /\ ~ms.apex_running
    /\ ~ms.in_match
    /\ ms.match_startISO # NoISO
    /\ ms.match_endISO = ms.last_tickISO
    /\ ms.bg_streak < ms.end_streak_needed

\* C3: with the process running, a tick closes the open session if and only
\* if it is a non-foreground tick whose background streak has reached
\* end_streak_needed (the tick on which the streak equals the threshold when
\* the thresholds did not change during the run); a tick that leaves the
\* session open leaves match_startISO alone, and a foreground tick never
\* closes a session.
C3_CloseOnFocusLoss ==
    [][ (TickStep /\ ms.in_match /\ ms'.apex_running) =>
          /\ (~ms'.in_match) <=>
                ((~ms'.apex_foreground) /\ ms'.bg_streak >= ms'.end_streak_needed)
          /\ ((~ms'.in_match) /\ cfg_age' >= ms'.bg_streak) =>
                ms'.bg_streak = ms'.end_streak_needed
          /\ ms'.in_match => ms'.match_startISO = ms.match_startISO
          /\ ms'.apex_foreground => ms'.in_match ]_vars

\* focus loss closed a session while the process was still running
C3_Witness ==
    /\ pc = "ticked"
    /\ ms.apex_running
    /\ ~ms.in_match
    /\ ms.match_startISO # NoISO
    /\ ms.match_endISO = ms.last_tickISO
    /\ ms.bg_streak = ms.end_streak_needed

\* the process ran on every tick so far
AllRunning == \A i \in 1..Len(run_trace) : run_trace[i]

\* C4: with the default thresholds 3 and 6, the nine ticks T,T,T,F,F,F,F,F,F
\* of foreground_match (process running throughout) open the session on
\* tick 3 and close it on tick 9, with no other transition.
C4_Scenario ==
    (fg_trace = ScenarioFg /\ AllRunning) =>
        transitions = << <<3, "open">>, <<9, "close">> >>

\* the nine ticks were played and the pipeline logged the session
C4_Witness ==
    /\ fg_trace = ScenarioFg
    /\ AllRunning
    /\ pc = "idle"
    /\ Len(logs) = 1
    /\ ms.start_streak_needed = 3
    /\ ms.end_streak_needed = 6

-----------------------------------------------------------------------------
(* Properties of the artifact store *)

\* C5: documents that are identical except for meta.lastUpdatedISO cause
\* exactly one file write in total, and every call with such a document
\* returns the path of the first call: (True, path) the first time,
\* (False, the same path) every later time.
C5_SaveOncePerDocument ==
    /\ \A c \in DOMAIN nwrites : nwrites[c] = 1
    /\ last_call # <<>> =>
          /\ ret[2] = first_path[last_call[1]]
          /\ ret[1] = last_call[2]

\* a document was saved again with another timestamp than the stored copy has
C5_Witness ==
    /\ store_pc = "snapshot"
    /\ last_call # <<>>
    /\ ~last_call[2]
    /\ ret[1] = FALSE
    /\ ret[2] \in DOMAIN files
    /\ DocClass(files[ret[2]]) = DocClass(profile)
    /\ files[ret[2]].meta.lastUpdatedISO # profile.meta.lastUpdatedISO

\* a step that is one call of save_unique_json
SaveStep == nsaves' = nsaves + 1

\* C6: a call whose document hash is already a key of the index writes no
\* document file, leaves every hash -> path entry of the index as it was,
\* and leaves the caller's document as it was.
C6_HitIsNoOp ==
    [][ (SaveStep /\ profile_hash(profile) \in DOMAIN index) =>
          /\ files' = files
          /\ index' = index
          /\ nwrites' = nwrites
          /\ profile' = profile
          /\ ret' = <<FALSE, index[profile_hash(profile)]>> ]_vars

\* the reset handler found the current profile already stored
C6_Witness ==
    /\ store_pc = "reset"
    /\ ret # <<>>
    /\ ret[1] = FALSE
    /\ profile_hash(profile) \in DOMAIN index
    /\ index[profile_hash(profile)] = ret[2]
    /\ files[ret[2]].meta.lastUpdatedISO # profile.meta.lastUpdatedISO

-----------------------------------------------------------------------------
(* Properties of the configuration fingerprint *)

\* number of occurrences of entry e in the list s
RECURSIVE Count(_, _)
Count(e, s) ==
    IF s = <<>> THEN 0 ELSE (IF Head(s) = e THEN 1 ELSE 0) + Count(e, Tail(s))

Range(s) == { s[i] : i \in DOMAIN s }

IsPermutation(s, t) ==
    /\ Len(s) = Len(t)
    /\ \A e \in Range(s) \cup Range(t) : Count(e, s) = Count(e, t)

\* the entries of a launch-option list that are enabled, in list order
EnabledEntries(s) == SelectSeq(s, LAMBDA x : x.enabled)

\* the set of enabled launch flags
EnabledFlagSet(s) == { x.key : x \in Range(EnabledEntries(s)) }

SameTargetsAndToggles ==
    /\ logged.config.targets = config.targets
    /\ logged.config.toggles = config.toggles

\* C7: the fingerprint is the same for any permutation of the launch-option
\* list.
C7_OrderIndependent ==
    (SameTargetsAndToggles
        /\ IsPermutation(logged.config.launchOptions, config.launchOptions))
    => logged.settings_signature = settings_signature(config)

\* C8: adding, removing or renaming launch-option entries whose enabled
\* field is false does not change the fingerprint.
C8_DisabledFlagsIgnored ==
    (SameTargetsAndToggles
        /\ EnabledEntries(logged.config.launchOptions) = EnabledEntries(config.launchOptions))
    => logged.settings_signature = settings_signature(config)

\* the two configurations share an enabled flag and differ in a disabled one
C8_Witness ==
    /\ SameTargetsAndToggles
    /\ EnabledEntries(logged.config.launchOptions) = EnabledEntries(config.launchOptions)
    /\ EnabledEntries(config.launchOptions) # <<>>
    /\ logged.config.launchOptions # config.launchOptions
    /\ Len(logged.config.launchOptions) = Len(config.launchOptions)
    /\ logged.settings_signature = settings_signature(logged.config)

\* C9: two configurations that differ in targets, in toggles or in the set
\* of enabled launch flags never get the same fingerprint.
C9_SeparatesCohorts ==
    ( \/ logged.config.targets # config.targets
      \/ logged.config.toggles # config.toggles
      \/ EnabledFlagSet(logged.config.launchOptions) # EnabledFlagSet(config.launchOptions) )
    => logged.settings_signature # settings_signature(config)

-----------------------------------------------------------------------------
(* Properties of the comparison engine *)

\* a field value that is a number or the text of one
IsNumeric(v) ==
    \/ v.kind = "num"
    \/ v.kind = "text" /\ v.text # <<>> /\ \A i \in DOMAIN v.text : v.text[i] \in Digits

\* every candidate's five numeric fields are absent or non-numeric
NoCandidateUsable ==
    \A i \in DOMAIN similar : \A k \in NumericFields : ~IsNumeric(similar[i][k])

\* C10: compare_vs_similar returns exactly "No prior similar sessions
\* found." for the empty pool, and the fixed not-enough-data message for a
\* non-empty pool in which no candidate has a numeric value in any of the
\* five fields.
C10_ComparisonFallbacks ==
    compare_text # <<>> =>
        /\ similar = <<>> =>
              compare_text[1] = [kind |-> "text", text |-> NoPriorText, parts |-> <<>>]
        /\ (similar # <<>> /\ NoCandidateUsable) =>
              compare_text[1] = [kind |-> "text", text |-> NotEnoughText, parts |-> <<>>]

\* a pool of two records without any numeric field was compared with a
\* record that has all five
C10_Witness ==
    /\ compare_text # <<>>
    /\ Len(similar) = 2
    /\ NoCandidateUsable
    /\ similar[1].cpu_avg_pct # similar[2].cpu_avg_pct
    /\ \A k \in NumericFields : IsNumeric(current[k])
    /\ compare_text[1].text = NotEnoughText

\* the five fields in the order compare_vs_similar treats them
FieldOrder == <<"cpu_avg_pct", "ping_ms", "packet_loss_pct", "avg_fps", "one_percent_low">>

FieldLabel(k) ==
    CASE k = "cpu_avg_pct" -> "CPU avg" [] k = "ping_ms" -> "Ping"
      [] k = "packet_loss_pct" -> "Loss" [] k = "avg_fps" -> "Avg FPS"
      [] k = "one_percent_low" -> "1% Low"

\* hundredths per step of the precision the mean of the field is printed with
FieldUnit(k) == IF k = "cpu_avg_pct" THEN 1 ELSE 10

\* at least one candidate has a usable numeric value for the field
CandidateUsable(k) == \E i \in DOMAIN similar : IsNumeric(similar[i][k])

HasFragment(out, k) == \E i \in DOMAIN out.parts : out.parts[i].label = FieldLabel(k)

\* the values, in hundredths, of the candidates with a usable value
RECURSIVE UsableSum(_, _)
UsableSum(pool, k) ==
    IF pool = <<>> THEN 0
    ELSE (IF IsNumeric(Head(pool)[k])
          THEN (IF Head(pool)[k].kind = "num" THEN Head(pool)[k].num
                ELSE DigitsValue(Head(pool)[k].text) * 100)
          ELSE 0) + UsableSum(Tail(pool), k)

UsableCount(pool, k) == Cardinality({i \in DOMAIN pool : IsNumeric(pool[i][k])})

\* the fields whose fragment is due: a candidate has a usable value and,
\* except for the CPU average, the compared record has one too
FragmentDue(k) ==
    CandidateUsable(k) /\ (k = "cpu_avg_pct" \/ IsNumeric(current[k]))

DueFields == SelectSeq(FieldOrder, FragmentDue)

C12_CpuScenario ==
    ( /\ compare_text # <<>>
      /\ Len(similar) = 2
      /\ {similar[1].cpu_avg_pct, similar[2].cpu_avg_pct} = {Number(4000), Number(5000)}
      /\ current.cpu_avg_pct = Number(4800) )
    => /\ compare_text[1].kind = "parts"
       /\ RenderFragment(compare_text[1].parts[1]) = "CPU avg: 48.00% vs 45.00% (+3.00)"

\* the scenario was compared, with no other field of any record usable, and
\* the whole output is the CPU fragment
C12_Witness ==
    /\ compare_text # <<>>
    /\ Len(similar) = 2
    /\ similar[1].cpu_avg_pct = Number(5000)
    /\ similar[2].cpu_avg_pct = Number(4000)
    /\ current.cpu_avg_pct = Number(4800)
    /\ \A k \in NumericFields \ {"cpu_avg_pct"} :
          ~IsNumeric(current[k]) /\ ~CandidateUsable(k)
    /\ RenderComparison(compare_text[1]) = "CPU avg: 48.00% vs 45.00% (+3.00)"

-----------------------------------------------------------------------------
(* Properties of the suggestion engine *)

\* C13: whenever autoHdrOn and rtxHdrOn are both true, the list returned by
\* make_suggestions (after its cap) holds the "Disable one" suggestion,
\* whatever the other toggles and the targets are.
C13_StackedToneMapping ==
    (suggestions # <<>> /\ advised.toggles.autoHdrOn /\ advised.toggles.rtxHdrOn)
    => \E i \in DOMAIN suggestions[1] : suggestions[1][i] = SuggestDisableOne

\* all four rules fire at once and "Disable one" comes second
C13_Witness ==
    /\ suggestions # <<>>
    /\ advised.toggles.autoHdrOn /\ advised.toggles.rtxHdrOn
    /\ Len(suggestions[1]) = 4
    /\ suggestions[1][1] = SuggestCapFps
    /\ suggestions[1][2] = SuggestDisableOne

-----------------------------------------------------------------------------
(* Properties of the session log *)

\* the log is ordered newest first by creation time
NewestFirst ==
    \A i, j \in DOMAIN logs : i < j => logs[i].createdISO[1] >= logs[j].createdISO[1]

\* a step that changes the log puts one new record in front of the
\* unchanged old log, and the new record is the one of the session that the
\* tick just closed
PrependStep ==
    logs' # logs =>
        /\ Len(logs') = Len(logs) + 1
        /\ Tail(logs') = logs
        /\ Head(logs').match_startISO = ms.match_startISO
        /\ Head(logs').match_endISO = ms.match_endISO
        /\ Head(logs').createdISO = ISO(now)

\* C14: every session-end pipeline makes the new record the first element of
\* performanceLogs and leaves the records logged before unchanged and in
\* their order; the log is ordered newest first in every state and no step
\* of the detector removes or modifies a record.
C14_PrependOnly == []NewestFirst /\ [][PrependStep]_vars

\* two sessions were logged at different seconds, the later one first
C14_Witness ==
    /\ Len(logs) = 2
    /\ logs[1].createdISO = ISO(2)
    /\ logs[2].createdISO = ISO(1)
    /\ logs[1].match_startISO # logs[2].match_startISO

\* a step that is one run of the session-end pipeline
PipelineStep == pc = "ticked" /\ pc' = "idle" /\ JustEnded(ms)

\* C15: the number of records in the log equals the number of ticks that
\* closed a session: between two ticks the two numbers are equal, the record
\* of a close is added in the script run of the closing tick, and a run whose
\* tick closed nothing adds no record; after a closing tick the run
\* continues with the pipeline.
C15_OneRecordPerSessionEnd ==
    /\ [](pc = "idle" => Len(logs) = nclosed)
    /\ [](pc = "ticked" => (Len(logs) = nclosed \/ Len(logs) + 1 = nclosed))
    /\ [][logs' # logs =>
             (pc = "ticked" /\ Len(logs) + 1 = nclosed /\ Len(logs') = nclosed)]_vars
    /\ [][(TickStep /\ ms.in_match /\ ~ms'.in_match) => JustEnded(ms')]_vars

\* two sessions were closed and two records logged
C15_Witness ==
    /\ pc = "idle"
    /\ nclosed = 2
    /\ Len(logs) = 2
    /\ nticks = MaxTicks

\* C16: right after monitor_tick returns, match_startISO is non-empty exactly
\* when a session is open or was closed by this very tick; once the run of
\* the script is over it is empty whenever no session is open.
C16_StartTimestamp ==
    /\ pc = "ticked" =>
          (ms.match_startISO # NoISO <=> (ms.in_match \/ Len(logs) + 1 = nclosed))
    /\ (pc = "idle" /\ ~ms.in_match) => ms.match_startISO = NoISO

\* monitor_tick has just closed a session and the start timestamp is still there
C16_Witness ==
    /\ pc = "ticked"
    /\ ~ms.in_match
    /\ Len(logs) + 1 = nclosed
    /\ ms.match_startISO = ISO(1)
    /\ ms.match_endISO = ISO(2)

\* C17: the session-end pipeline leaves match_startISO, match_endISO,
\* cpu_samples and cpu_peak at their idle defaults and every other field of
\* the detector state as it was; enabled, poll_seconds and the two thresholds
\* are the same as before the tick, which does not touch them either.
C17_ResetFrame ==
    [][ /\ PipelineStep =>
              ms' = [ms EXCEPT !.match_startISO = NoISO, !.match_endISO = NoISO,
                               !.cpu_samples = <<>>, !.cpu_peak = 0]
        /\ (PipelineStep \/ TickStep) =>
              /\ ms'.enabled = ms.enabled
              /\ ms'.poll_seconds = ms.poll_seconds
              /\ ms'.start_streak_needed = ms.start_streak_needed
              /\ ms'.end_streak_needed = ms.end_streak_needed ]_vars

\* a pipeline has run on a session with samples, under thresholds other
\* than the defaults
C17_Witness ==
    /\ pc = "idle"
    /\ Len(logs) = 1
    /\ logs[1].cpu_peak_pct > 0
    /\ ms.cpu_samples = <<>> /\ ms.cpu_peak = 0
    /\ ms.match_startISO = NoISO /\ ms.match_endISO = NoISO
    /\ ms.enabled
    /\ ms.start_streak_needed = 2 /\ ms.end_streak_needed = 3
    /\ ms.last_tickISO = logs[1].match_endISO

-----------------------------------------------------------------------------
(* Properties of safe_save_json *)

\* every target file holds the complete document of the last call that
\* returned for it, and does not exist before the first such call
TargetsCommitted ==
    \A path \in SavePaths :
        /\ path \in DOMAIN disk <=> path \in DOMAIN committed
        /\ path \in DOMAIN disk => json_load(disk[path]) = <<committed[path]>>

\* C18: at every step of safe_save_json, and after a crash at any of them,
\* the file at path holds the complete document committed before; when the
\* call returns it holds the complete new document; it never holds a part
\* of a document.
C18_CrashSafe ==
    /\ []TargetsCommitted
    /\ [][(save_pc = "closed" /\ save_pc' = "idle" /\ committed' # committed) =>
             json_load(disk'[save_path]) = save_data]_vars
    /\ [][(save_pc # "idle" /\ committed' = committed) =>
             \A path \in SavePaths :
                 /\ path \in DOMAIN disk' <=> path \in DOMAIN disk
                 /\ path \in DOMAIN disk => disk'[path] = disk[path]]_vars

\* the process died while the second document was being written over a
\* committed first one: a part of the new text is left in the temporary file
C18_Witness ==
    /\ save_pc = "idle"
    /\ AUTOSAVE_PATH \in DOMAIN committed
    /\ committed[AUTOSAVE_PATH].updated = 1
    /\ TmpPath(AUTOSAVE_PATH) \in DOMAIN disk
    /\ Len(disk[TmpPath(AUTOSAVE_PATH)]) = 3
    /\ disk[TmpPath(AUTOSAVE_PATH)][3] = "2"

-----------------------------------------------------------------------------
(* Properties of the probes *)

FailedPing == <<"failed", 0, 0>>

\* what the pipeline does with the ping probe failed, in a state where
\* monitor_tick has just closed a session
FailedPingOutcome == SessionEndPipeline(ms, logs, config, ISO(now), FailedPing)

\* what monitor_tick does with the process, window and CPU probes all failed
FailedProbesTick == monitor_tick(ms, ISO(now), FALSE, "", 0)

-----------------------------------------------------------------------------
(* Properties of the uploader *)

\* the import handler is about to act on a file that is neither a profile document
\* of the documented shape nor a scan bundle (the handler's step moves store_pc)
MalformedUpload ==
    /\ store_pc = "uploaded"
    /\ \/ json_loads_raises(upload[1])
       \/ /\ ~is_scan(upload[1].data)
          /\ ~RunSurvives(upload[1].data)

\* C20: an import whose payload is not a conforming profile (and not a scan bundle)
\* is rejected with an error message, and the profile, the session log, the autosave
\* and the artifact index are left unchanged
C20_MalformedImportRejected ==
    [][(MalformedUpload /\ store_pc' # store_pc) =>
          /\ message' \in {ErrorUnknown, ErrorFailed}
          /\ profile' = profile
          /\ logs' = logs
          /\ autosave' = autosave
          /\ index' = index
          /\ files' = files]_vars

-----------------------------------------------------------------------------
(* Properties of the session-end persistence *)

-----------------------------------------------------------------------------
(* Properties of the FPS import *)

\* the fields of a record the FPS import may write
FpsFields == {"avg_fps", "one_percent_low", "compare_to_similar"}

\* C22: a step that changes the log and is not the session-end pipeline (the FPS
\* import) keeps the length and the order of the log and every record but the
\* newest, and changes the newest record in avg_fps, one_percent_low and
\* compare_to_similar only, the two FPS fields becoming the imported numbers;
\* on an empty log the import changes neither the log, the notes nor the autosave
C22_FpsImportFrame ==
    /\ [][(logs' # logs /\ ~PipelineStep) =>
             /\ logs # <<>>
             /\ Len(logs') = Len(logs)
             /\ Tail(logs') = Tail(logs)
             /\ \A f \in (DOMAIN logs[1]) \ FpsFields : logs'[1][f] = logs[1][f]
             /\ \E result \in FpsResults :
                   /\ logs'[1].avg_fps = Number(result.avg_fps)
                   /\ logs'[1].one_percent_low = Number(result.one_percent_low)]_vars
    /\ [][(ApplyFps /\ logs = <<>>) =>
             /\ logs' = logs
             /\ notes' = notes
             /\ autosaved_logs' = autosaved_logs
             /\ fps_status' = "no_logs"]_vars

C22_Witness ==
    /\ fps_status = "applied"
    /\ Len(logs) = 2
    /\ logs[1].avg_fps = Number(12000)
    /\ logs[2].avg_fps = EmptyText
    /\ logs[1].settings_signature # logs[2].settings_signature

-----------------------------------------------------------------------------
(* Properties of the tick driver *)

\* the part of the detector state that only monitor_tick and the pipeline write
DetectorFields(state) ==
    << state.in_match, state.fg_streak, state.bg_streak, state.match_startISO,
       state.match_endISO, state.cpu_samples, state.cpu_peak >>

\* C23: while enabled is false every step leaves in_match, both streaks, the two
\* timestamps, cpu_samples, cpu_peak and the log as they are and no tick is
\* counted; a script run is inside a tick only with enabled true, and the only
\* steps out of such a state finish the run with enabled unchanged, the
\* pipeline adding its record when the tick closed a session
C23_DisabledStopsTicks ==
    /\ [][(~ms.enabled) =>
             /\ DetectorFields(ms') = DetectorFields(ms)
             /\ logs' = logs
             /\ nticks' = nticks
             /\ pc' = "idle"]_vars
    /\ [](pc = "ticked" => ms.enabled)
    /\ [][pc = "ticked" =>
             /\ pc' = "idle"
             /\ ms'.enabled
             /\ ms'.in_match = ms.in_match
             /\ Len(logs') = Len(logs) + (IF JustEnded(ms) THEN 1 ELSE 0)]_vars

C23_Witness ==
    /\ ~ms.enabled
    /\ pc = "idle"
    /\ ms.in_match
    /\ ms.cpu_samples # <<>>
    /\ ms.bg_streak = 1
    /\ Len(logs) = 1

-----------------------------------------------------------------------------
(* Properties of the streak counters *)

\* the number of entries at the end of trace that equal b
RECURSIVE TrailingCount(_, _)
TrailingCount(trace, b) ==
    IF trace = <<>> \/ trace[Len(trace)] # b THEN 0
    ELSE 1 + TrailingCount(SubSeq(trace, 1, Len(trace) - 1), b)

\* C24: once a tick has run, exactly one of fg_streak and bg_streak is zero and
\* the other is at least 1; fg_streak is the number of most recent consecutive
\* ticks with foreground_match true and bg_streak that with foreground_match
\* false, whatever in_match is and whatever sessions were opened or closed
C24_StreakInvariant ==
    nticks > 0 =>
        /\ ms.fg_streak = TrailingCount(fg_trace, TRUE)
        /\ ms.bg_streak = TrailingCount(fg_trace, FALSE)
        /\ \/ (ms.fg_streak = 0 /\ ms.bg_streak >= 1)
           \/ (ms.bg_streak = 0 /\ ms.fg_streak >= 1)

C24_Witness ==
    /\ nclosed = 1
    /\ ms.in_match
    /\ ms.fg_streak = 3
    /\ ms.bg_streak = 0
    /\ Len(fg_trace) = 7
    /\ fg_trace[4] = FALSE

-----------------------------------------------------------------------------
(* Properties of the CPU statistics *)

IsOpen(t) == t[2] = "open"

IsClose(t) == t[2] = "close"

\* the samples of the ticks first..last on which the process was running
RECURSIVE RunningSamples(_, _)
RunningSamples(first, last) ==
    IF first > last THEN <<>>
    ELSE (IF run_trace[first] THEN <<cpu_trace[first]>> ELSE <<>>)
            \o RunningSamples(first + 1, last)

\* the k-th session that was logged, counted from the oldest
RecordOfSession(k) == logs[Len(logs) + 1 - k]

-----------------------------------------------------------------------------
(* Properties of the candidate pool *)

\* the records of others that carry the fingerprint and the HDR label of rec
MatchingOthers(others, rec) ==
    LET Same(x) == /\ x.settings_signature = rec.settings_signature
                   /\ x.hdr_mode = rec.hdr_mode
    IN  SelectSeq(others, Same)

\* C26: both at session end and at the FPS import, the pool handed to the
\* comparison is exactly the records behind the newest one (the other records of
\* the log) whose settings_signature and hdr_mode equal the newest record's, and
\* the summary stored in the record is the comparison against that pool
C26_CandidatePool ==
    [][(PipelineStep \/ (ApplyFps /\ logs # <<>>)) =>
          /\ pool_used' = MatchingOthers(Tail(logs'), logs'[1])
          /\ Len(pool_used') < Len(logs')
          /\ logs'[1].compare_to_similar =
                RenderComparison(compare_vs_similar(
                    MatchingOthers(Tail(logs'), logs'[1]), logs'[1]))]_vars

C26_Witness ==
    /\ Len(logs) = 2
    /\ fps_status = "applied"
    /\ pool_used = <<logs[2]>>
    /\ logs[2].avg_fps = Number(10000)
    /\ logs[1].avg_fps = Number(12000)

-----------------------------------------------------------------------------
(* Properties of the artifact index *)

\* C27: every hash of the index maps to a path whose file holds the document
\* with that normalized hash, and two distinct hashes never map to the same path
C27_IndexIntegrity ==
    \A h \in DOMAIN index :
        /\ index[h] \in DOMAIN files
        /\ profile_hash(files[index[h]]) = h
        /\ \A h2 \in DOMAIN index : index[h2] = index[h] => h2 = h

-----------------------------------------------------------------------------
(* Properties of the session interval *)

-----------------------------------------------------------------------------
(* Properties of the replacing handlers *)

\* the second half of the Reset handler or of a profile import: the step that
\* replaces the profile in use
ReplaceStep == store_pc \in {"reset", "import"} /\ store_pc' = "idle"

\* C29: when Reset or a profile import replaces the profile, the normalized hash
\* of the profile that is replaced is a key of the index afterwards, and the
\* handler had called the store on that very profile before replacing it
C29_SnapshotBeforeReplace ==
    /\ [][ReplaceStep => profile_hash(profile) \in DOMAIN index']_vars
    /\ [](store_pc \in {"reset", "import"} =>
             /\ profile_hash(profile) \in DOMAIN index
             /\ ret # <<>>
             /\ index[profile_hash(profile)] = ret[2])

C29_Witness ==
    /\ store_pc = "idle"
    /\ nsaves = 2
    /\ profile.targets.fpsTarget = 237
    /\ \E h \in DOMAIN index, t \in 1..MaxClock :
          /\ h.targets.fpsTarget = 240
          /\ h # profile_hash(profile)
          /\ index[h] = ArtifactPath(SNAP_DIR, PrefixSnap, slug(ProfileNameOf(h)),
                                     FileStamp(t), slug(ReasonBeforeReset))

-----------------------------------------------------------------------------
(* Progress of the detector *)

\* C30: with the detector enabled and ticks and script runs weakly fair, a session
\* that is open after a tick without foreground match leads to that session
\* being closed and its record logged, unless a later tick has foreground match
\* again; between script runs no session is open with end_streak_needed or more
\* background ticks behind it, and after a tick on which the process was not
\* running none is open at all
C30_SessionEventuallyCloses ==
    /\ \A k \in 0..MaxLiveSessions :
          (ms.in_match /\ ~ms.apex_foreground /\ nclosed = k)
              ~> ((~ms.in_match /\ nclosed = k + 1 /\ Len(logs) = k + 1)
                     \/ ms.apex_foreground)
    /\ [](ms.in_match => ms.bg_streak < ms.end_streak_needed)
    /\ []((nclosed > 0 /\ ~ms.apex_running) => ~ms.in_match)

C30_Witness ==
    /\ pc = "idle"
    /\ Len(logs) = 1
    /\ ~ms.in_match
    /\ ms.apex_running
    /\ ms.bg_streak = ms.end_streak_needed
    /\ logs[1].cpu_avg_pct = Number(4000)

====
